---- MODULE Spec2Model ----
(***************************************************************************)
(* Model of the Movie Resource Service of routes/movies.py: the six route  *)
(* handlers over the Record Store (table Movie), the Blob Store (directory *)
(* FILE_DIR) and the table User that the authorization checks read.        *)
(*                                                                         *)
(* Every handler is one action.  A handler that raises an exception that   *)
(* is not an HTTPException ends in the framework's 500 response; the       *)
(* session is then never committed, so the Record Store is unchanged.      *)
(* The Record Store itself is taken to be available: commit does not fail. *)
(* The Movie attributes of the model are id, title, user_id, poster_path;  *)
(* data blobs are text that does not parse or JSON objects over the keys   *)
(* title, user_id, poster_path and one key that names no attribute of      *)
(* Movie; the key id is outside the model.  uuid4 names are taken to be    *)
(* unique.                                                                 *)
(***************************************************************************)
EXTENDS Integers, Sequences, FiniteSets, TLC

\* ---------------------------------------------------------------- bounds
MaxMovies == 1          \* number of records ever inserted
MaxUploads == 2         \* number of files ever created by the service

\* ------------------------------------------------------------ the callers
\* rows of table User (models.users): User.id, User.is_admin
Users == {1, 2}
Admins == {1}
\* identifiers the authenticator can yield; 3 is no row of User
Callers == Users \cup {3}

\* ------------------------------------------------------------- file names
\* a file name is a sequence of characters; "." separates the extension
PosterFilenames == { <<"a", ".", "g", ".", "j">>, <<"j">> }

\* str.split('.')[-1]: the part after the last "." (the whole string when
\* it holds no ".")
RECURSIVE LastPart(_)
LastPart(s) ==
  IF s = << >> THEN << >>
  ELSE IF s[Len(s)] = "." THEN << >>
  ELSE LastPart(SubSeq(s, 1, Len(s) - 1)) \o << s[Len(s)] >>

\* a value of Movie.poster_path, as the path FILE_DIR / poster_path:
\*   kind "gen"  : <hex>.<ext>, a name made by uuid4
\*   kind "dir"  : a string such as "" or ".", which resolves to FILE_DIR
\*                 itself, an existing directory
\*   kind "absent": no value (the key is not in the blob)
\* A client string that names nothing under FILE_DIR behaves in
\* download_poster as a generated name whose file was removed.
AbsentPath == [kind |-> "absent", hex |-> 0, ext |-> << >>]
ClientPaths == { [kind |-> "dir", hex |-> 0, ext |-> << >>] }

\* f"{uuid4().hex}.{ext}": uuid4 is modelled as a fresh number
UniqueFilenameReused(hex, ext) == [kind |-> "gen", hex |-> 1, ext |-> ext]
UniqueFilename(hex, ext) == [kind |-> "gen", hex |-> hex, ext |-> ext]

\* ------------------------------------------------------------- data blobs
Titles == {"X", "Y"}
NoTitle == "-"           \* None / key absent
NoUser == 0              \* key absent
BlobUserIds == {1}
EmptyFields == [title |-> NoTitle, user_id |-> NoUser,
                poster_path |-> AbsentPath, bogus |-> FALSE]
Field(g, k, v) == [g EXCEPT ![k] = v]
\* the Form field data: text that json.loads rejects ("bad"), or a JSON
\* object ("map")
Unparseable == [kind |-> "bad", f |-> EmptyFields]
Mapping(g) == [kind |-> "map", f |-> g]
\* update_movie: a patch that names one attribute, or a key that is none
PatchFields ==
  { Field(EmptyFields, "bogus", TRUE) }
  \cup { Field(EmptyFields, "title", t) : t \in Titles }
  \cup { Field(EmptyFields, "user_id", u) : u \in BlobUserIds }
  \cup { Field(EmptyFields, "poster_path", p) : p \in ClientPaths }
UpdateBlobs == {Unparseable} \cup { Mapping(g) : g \in PatchFields }
\* create_movie: a description of the Movie, a title and at most one more key
CreateBlobs ==
  {Unparseable}
  \cup { Mapping(Field(EmptyFields, "title", t)) : t \in Titles }
  \cup { Mapping(Field(g, "title", "X")) : g \in PatchFields }
NoBlob == [kind |-> "none", f |-> EmptyFields]

\* the uploaded poster (UploadFile): its filename; its bytes are not modelled
Posters == [filename : PosterFilenames]
\* ext = poster.filename.split('.')[-1]
PosterExts == { LastPart(p.filename) : p \in Posters }

\* outcome of open(file_path, "wb") / f.write(...)
WriteOutcomes == {"ok", "openfail", "writefail"}

\* ------------------------------------------------------------------ state
VARIABLES
  movies,    \* Record Store: table Movie, id -> record
  files,     \* Blob Store: the names of the regular files of FILE_DIR
  nextId,    \* the identifier the store assigns to the next insert
  nextHex,   \* fresh-name source of uuid4
  last       \* the last request and its response

vars == <<movies, files, nextId, nextHex, last>>

NoMovie == [id |-> 0, title |-> NoTitle, user_id |-> 0, poster_path |-> AbsentPath]

\* the request (op, id, caller, d, whether a poster came with it) and the
\* response (status, body: the Movie returned, file: the file returned,
\* all: the list returned); wr is the outcome of the handler's file write.
\* d and hasPoster are recorded as far as the handler read them: json.loads
\* reads the kind of the blob, the Movie constructor and the setattr loop
\* read its fields, update_movie looks at the poster after the loop.
Unread(d) == [kind |-> d.kind, f |-> EmptyFields]
Request(op, id, caller, d, hasPoster) ==
  [op |-> op, id |-> id, caller |-> caller, d |-> d, hasPoster |-> hasPoster]
NoFile == AbsentPath
Response(req, st, body, file, all, wr) ==
  [op |-> req.op, id |-> req.id, caller |-> req.caller, d |-> req.d,
   hasPoster |-> req.hasPoster, status |-> st, body |-> body, file |-> file,
   all |-> all, wr |-> wr]
Fail(req, st) == Response(req, st, NoMovie, NoFile, {}, "none")

Init ==
  /\ movies = << >>
  /\ files = {}
  /\ nextId = 1
  /\ nextHex = 1
  /\ last = Fail(Request("init", 0, 0, NoBlob, FALSE), 0)

\* ---------------------------------------------------------------- helpers
\* Movie(**data_dict, user_id=user_id): a blob that itself holds the key
\* user_id makes the call raise TypeError (keyword given twice); otherwise
\* the owner is the keyword argument.  Keys that name no field of Movie are
\* ignored by the constructor.
NewMovieBlobOwner(d, caller) ==
  IF d.kind # "map" THEN [err |-> TRUE, m |-> NoMovie]
  ELSE [err |-> FALSE,
        m |-> [id |-> 0, title |-> d.f.title,
               user_id |-> IF d.f.user_id # NoUser THEN d.f.user_id ELSE caller,
               poster_path |-> d.f.poster_path]]
NewMovie(d, caller) ==
  IF d.kind # "map" \/ d.f.user_id # NoUser THEN [err |-> TRUE, m |-> NoMovie]
  ELSE [err |-> FALSE,
        m |-> [id |-> 0, title |-> d.f.title, user_id |-> caller,
               poster_path |-> d.f.poster_path]]

\* with open(file_path, "wb") as f: f.write(poster.file.read())
\* open may fail (no file), the write may fail (a truncated file stays)
WriteFile(fs, name, wr) ==
  IF wr \in {"ok", "writefail"} THEN fs \cup {name} ELSE fs

\* create_movie: session.add / commit come after the file write, so they
\* are reached only when the write did not raise
CreatePersistsAlways(wr) == TRUE
CreatePersists(wr) == wr = "ok"

\* if not user.is_admin and movie.user_id != user_id: raise 403
UpdatePermitted(m, caller) == caller \in Admins \/ m.user_id = caller
DeletePermittedAnyUser(m, caller) == TRUE
DeletePermitted(m, caller) == caller \in Admins \/ m.user_id = caller

\* for key, value in parsed_data.items():
\*     if hasattr(movie, key): setattr(movie, key, value)
SetAttrsDropPoster(m, d) ==
  [m EXCEPT !.title = d.f.title, !.poster_path = d.f.poster_path,
            !.user_id = IF d.f.user_id # NoUser THEN d.f.user_id ELSE @]
SetAttrs(m, d) ==
  [m EXCEPT
     !.title = IF d.f.title # NoTitle THEN d.f.title ELSE @,
     !.user_id = IF d.f.user_id # NoUser THEN d.f.user_id ELSE @,
     !.poster_path = IF d.f.poster_path # AbsentPath THEN d.f.poster_path ELSE @]

\* session.delete(movie); session.commit()
DeleteRow(ms, id) == [i \in DOMAIN ms \ {id} |-> ms[i]]

\* file_path.exists() for file_path = FILE_DIR / movie.poster_path
PathExists(p) == p.kind = "dir" \/ (p.kind = "gen" /\ p \in files)
\* FileResponse sends a regular file and raises RuntimeError for a path
\* that is not one
IsRegularFile(p) == p.kind = "gen" /\ p \in files

\* ---------------------------------------------------------------- actions
Ids == 1..MaxMovies     \* the movie_id of a request

\* GET /
get_all_movies ==
  /\ last' = Response(Request("list", 0, 0, NoBlob, FALSE), 200, NoMovie, NoFile,
                      {movies[i] : i \in DOMAIN movies}, "none")
  /\ UNCHANGED <<movies, files, nextId, nextHex>>

\* GET /{movie_id}
get_movie ==
  \E id \in Ids :
    LET req == Request("get", id, 0, NoBlob, FALSE) IN
    /\ last' = IF id \notin DOMAIN movies
               THEN Fail(req, 404)
               ELSE Response(req, 200, movies[id], NoFile, {}, "none")
    /\ UNCHANGED <<movies, files, nextId, nextHex>>

\* POST /
create_movie ==
  \E d \in CreateBlobs, caller \in Callers :
    LET req == Request("create", 0, caller, d, TRUE)
        new == NewMovie(d, caller)
    IN
    IF d.kind = "bad" \/ new.err
    THEN \* json.loads or the constructor raised: nothing was touched
         /\ last' = Fail(req, 500)
         /\ UNCHANGED <<movies, files, nextId, nextHex>>
    ELSE \E ext \in PosterExts, wr \in WriteOutcomes :
         LET name == UniqueFilename(nextHex, ext)
             m    == [new.m EXCEPT !.id = nextId, !.poster_path = name]
         IN
         /\ nextId <= MaxMovies
         /\ nextHex <= MaxUploads
         /\ files' = WriteFile(files, name, wr)
         /\ nextHex' = IF wr = "openfail" THEN nextHex ELSE nextHex + 1
         /\ IF CreatePersists(wr)
            THEN /\ movies' = (nextId :> m) @@ movies
                 /\ nextId' = nextId + 1
            ELSE UNCHANGED <<movies, nextId>>
         /\ last' = IF wr = "ok" THEN Response(req, 201, m, NoFile, {}, wr)
                    ELSE Response(req, 500, NoMovie, NoFile, {}, wr)

\* PUT /{movie_id}
update_movie ==
  \E id \in Ids, d \in UpdateBlobs, caller \in Callers :
    IF d.kind = "bad" \/ id \notin DOMAIN movies \/ caller \notin Users
       \/ ~UpdatePermitted(movies[id], caller)
    THEN \* raised before the blob's fields and the poster were looked at
         /\ last' = Fail(Request("update", id, caller, Unread(d), FALSE),
                      CASE d.kind = "bad" -> 500
                        [] id \notin DOMAIN movies -> 404
                        [] caller \notin Users -> 401
                        [] OTHER -> 403)
         /\ UNCHANGED <<movies, files, nextId, nextHex>>
    ELSE \E hasPoster \in BOOLEAN :
         LET req    == Request("update", id, caller, d, hasPoster)
             merged == SetAttrs(movies[id], d)
         IN
         IF hasPoster
         THEN \E ext \in PosterExts, wr \in WriteOutcomes :
              LET name == UniqueFilename(nextHex, ext)
                  m    == [merged EXCEPT !.poster_path = name]
              IN
              /\ nextHex <= MaxUploads
              /\ files' = WriteFile(files, name, wr)
              /\ nextHex' = IF wr = "openfail" THEN nextHex ELSE nextHex + 1
              /\ IF wr = "ok"
                 THEN /\ movies' = [movies EXCEPT ![id] = m]
                      /\ last' = Response(req, 200, m, NoFile, {}, wr)
                 ELSE /\ UNCHANGED movies
                      /\ last' = Response(req, 500, NoMovie, NoFile, {}, wr)
              /\ UNCHANGED nextId
         ELSE /\ movies' = [movies EXCEPT ![id] = merged]
              /\ last' = Response(req, 200, merged, NoFile, {}, "none")
              /\ UNCHANGED <<files, nextId, nextHex>>

\* DELETE /{movie_id}
delete_movie ==
  \E id \in Ids, caller \in Callers :
    LET req == Request("delete", id, caller, NoBlob, FALSE) IN
    IF id \notin DOMAIN movies \/ caller \notin Users
       \/ ~DeletePermitted(movies[id], caller)
    THEN /\ last' = Fail(req,
                      CASE id \notin DOMAIN movies -> 404
                        [] caller \notin Users -> 401
                        [] OTHER -> 403)
         /\ UNCHANGED <<movies, files, nextId, nextHex>>
    ELSE /\ movies' = DeleteRow(movies, id)
         /\ last' = Response(req, 200, NoMovie, NoFile, {}, "none")
         /\ UNCHANGED <<files, nextId, nextHex>>

\* GET /download/{movie_id}
download_poster ==
  \E id \in Ids :
    LET req == Request("download", id, 0, NoBlob, FALSE) IN
    /\ last' = IF id \notin DOMAIN movies
               THEN Fail(req, 404)
               ELSE IF ~PathExists(movies[id].poster_path)
               THEN Fail(req, 404)
               ELSE IF IsRegularFile(movies[id].poster_path)
               THEN Response(req, 200, NoMovie, movies[id].poster_path, {},
                             "none")
               ELSE Fail(req, 500)
    /\ UNCHANGED <<movies, files, nextId, nextHex>>

\* a poster file is removed from FILE_DIR by something other than the service
RemoveFileOutOfBand ==
  \E n \in files :
    /\ files' = files \ {n}
    /\ last' = Fail(Request("oob", 0, 0, NoBlob, FALSE), 0)
    /\ UNCHANGED <<movies, nextId, nextHex>>

NextService ==
  \/ get_all_movies
  \/ get_movie
  \/ create_movie
  \/ update_movie
  \/ delete_movie
  \/ download_poster

Next ==
  \/ NextService
  \/ RemoveFileOutOfBand

Spec == Init /\ [][Next]_vars
\* the service alone, no out-of-band change of FILE_DIR
SpecService == Init /\ [][NextService]_vars

\* ----------------------------------------------------------------- claims
Known(caller) == caller \in Users
NonOwnerNonAdmin(id, caller) ==
  /\ id \in DOMAIN movies
  /\ Known(caller)
  /\ caller \notin Admins
  /\ movies[id].user_id # caller

\* C1: every Movie that create_movie persists and returns has as user_id the
\* identifier the authenticator yielded for that request, whatever the data
\* blob holds: a create step inserts at most records owned by the caller, and
\* the record it returns with 201 is the persisted one, owned by the caller.
C1_CreateOwnerIsCaller ==
  [][ last'.op = "create" =>
        /\ \A i \in DOMAIN movies' \ DOMAIN movies :
             movies'[i].user_id = last'.caller
        /\ last'.status = 201 =>
             /\ last'.body.user_id = last'.caller
             /\ last'.body.id \in DOMAIN movies' \ DOMAIN movies
             /\ movies'[last'.body.id] = last'.body ]_vars
C1_Witness ==
  /\ last.op = "create"
  /\ last.status = 201
  /\ last.caller \notin BlobUserIds
  /\ last.body.id \in DOMAIN movies
  /\ movies[last.body.id].user_id = last.caller

\* C2: an update_movie on an existing Movie by a known caller who is neither
\* admin nor owner is answered 403 and changes neither the Movie records nor
\* the Blob Store, for every data blob and with or without a poster.
C2_ForbiddenUnchanged ==
  [][ (last'.op = "update" /\ NonOwnerNonAdmin(last'.id, last'.caller)) =>
        /\ last'.status = 403
        /\ movies' = movies
        /\ files' = files ]_vars

\* C3: delete_movie removes the record exactly when the Movie exists and the
\* caller is a known User who is admin or owner; otherwise it answers 404,
\* else 401, else 403, in that precedence, and the records are unchanged.
C3_DeleteChecks ==
  [][ last'.op = "delete" =>
        LET id == last'.id
            caller == last'.caller
        IN
        IF id \notin DOMAIN movies
        THEN last'.status = 404 /\ movies' = movies
        ELSE IF ~Known(caller)
        THEN last'.status = 401 /\ movies' = movies
        ELSE IF ~(caller \in Admins \/ movies[id].user_id = caller)
        THEN last'.status = 403 /\ movies' = movies
        ELSE /\ last'.status = 200
             /\ DOMAIN movies' = DOMAIN movies \ {id}
             /\ \A i \in DOMAIN movies' : movies'[i] = movies[i] ]_vars
C3_Witness ==
  /\ last.op = "delete"
  /\ last.status = 403
  /\ NonOwnerNonAdmin(last.id, last.caller)

\* C4: a successful update_movie without a poster and without a poster key
\* in its data leaves the poster filename unchanged and writes no file, a
\* title in its data becomes the Movie's title, and get_movie returns the
\* stored Movie.
C4_UpdateKeepsPoster ==
  [][ /\ (/\ last'.op = "update"
          /\ last'.status = 200
          /\ ~last'.hasPoster
          /\ last'.d.f.poster_path = AbsentPath) =>
            /\ movies'[last'.id].poster_path = movies[last'.id].poster_path
            /\ files' = files
            /\ last'.d.f.title # NoTitle =>
                 /\ movies'[last'.id].title = last'.d.f.title
                 /\ last'.body.title = last'.d.f.title
      /\ (last'.op = "get" /\ last'.status = 200) =>
            /\ last'.id \in DOMAIN movies
            /\ last'.body = movies[last'.id] ]_vars
C4_Witness ==
  /\ last.op = "update"
  /\ last.status = 200
  /\ ~last.hasPoster
  /\ last.d.f.title = "Y"
  /\ movies[last.id].title = "Y"
  /\ movies[last.id].poster_path \in files

\* C5: download_poster never ends in a server error: it answers 404 when the
\* Movie does not exist or its poster filename names no file of the Blob
\* Store, and otherwise returns the file stored under that filename.
C5_DownloadNo500 ==
  last.op = "download" =>
    IF \/ last.id \notin DOMAIN movies
       \/ movies[last.id].poster_path \notin files
    THEN last.status = 404
    ELSE last.status = 200 /\ last.file = movies[last.id].poster_path

\* C6: create_movie answers 400 for a data blob that cannot be parsed.
C6_CreateBadRequest ==
  (last.op = "create" /\ last.d.kind = "bad") => last.status = 400

\* C7: every Movie's user_id is the caller that created it: a create step
\* sets it to its caller, and no step changes the user_id of a Movie that
\* exists before and after it.
C7_OwnerImmutable ==
  [][ /\ \A i \in DOMAIN movies' \ DOMAIN movies :
           last'.op = "create" /\ movies'[i].user_id = last'.caller
      /\ \A i \in DOMAIN movies \cap DOMAIN movies' :
           movies'[i].user_id = movies[i].user_id ]_vars

\* C8: with no out-of-band removal, every existing Movie's poster filename is
\* a name the server generated and names a file of the Blob Store.
C8_PosterServerSet ==
  \A i \in DOMAIN movies :
    /\ movies[i].poster_path.kind = "gen"
    /\ movies[i].poster_path \in files

\* C9: in create_movie the file write precedes the insert: a create whose
\* file write failed leaves the Movie records as they were, and a create
\* that inserted a record had written that record's poster file.
C9_CreateWriteThenInsert ==
  [][ last'.op = "create" =>
        /\ last'.wr \in {"openfail", "writefail"} =>
             movies' = movies /\ last'.status = 500
        /\ \A i \in DOMAIN movies' \ DOMAIN movies :
             last'.wr = "ok" /\ movies'[i].poster_path \in files' ]_vars
C9_Witness ==
  /\ last.op = "create"
  /\ last.wr = "writefail"
  /\ last.status = 500
  /\ files # {}

\* C10: no operation of the service removes or overwrites a file: every
\* stored file stays and every write goes to a name not in use;
\* delete_movie leaves the files as they are; update_movie with a poster
\* writes under a new name and leaves the previous poster file in place.
C10_FilesOnlyGrow ==
  [][ last'.op # "oob" =>
        /\ files \subseteq files'
        /\ last'.wr = "ok" => Cardinality(files') = Cardinality(files) + 1
        /\ (last'.op = "delete" /\ last'.status = 200) => files' = files
        /\ (last'.op = "update" /\ last'.status = 200 /\ last'.hasPoster) =>
             /\ movies'[last'.id].poster_path \notin files
             /\ movies'[last'.id].poster_path \in files'
             /\ movies'[last'.id].poster_path # movies[last'.id].poster_path ]_vars
C10_Witness ==
  /\ last.op = "update"
  /\ last.status = 200
  /\ last.hasPoster
  /\ Cardinality(files) = 2
  /\ \E n \in files : \A i \in DOMAIN movies : movies[i].poster_path # n
====
